---- MODULE Spec2Model ----
(***************************************************************************)
(* The conversation workflow of the slides agent (PPTAgentWorkflow of      *)
(* temporal_agent_infographics.py) as a state machine.  One workflow       *)
(* instance is modelled: its fields, the position of its run() coroutine,  *)
(* the activity it is awaiting, the files on disk and the registry of      *)
(* code executors.                                                         *)
(*                                                                         *)
(* The workflow runs on the Temporal runtime.  Python code between two     *)
(* awaits is one atomic step; a signal handler runs between such steps.    *)
(* The arguments of an activity are evaluated when execute_activity is     *)
(* called.  No call of execute_activity passes a retry_policy, so a failed *)
(* or timed-out attempt of an activity is retried by the runtime and the   *)
(* workflow keeps awaiting the same call.                                  *)
(***************************************************************************)
EXTENDS Integers, Sequences, FiniteSets, TLC

VARIABLES
    messages,                \* self.messages, the transcript
    pptx_files,              \* self.pptx_files
    excel_files,             \* self.excel_files
    file_path_mapping,       \* self.file_path_mapping
    memory,                  \* self.memory (the dict under the key "Memory")
    user_input_received,     \* self.user_input_received
    user_query,              \* self.user_query
    pc,                      \* where run() is suspended
    activity_args,           \* the file lists passed to the activity awaited
    assistant_message,       \* the tool_calls of the local assistant_message
    tool_index,              \* position of the for loop over tool_calls
    tool_response,           \* tool_response held while the snapshot is refreshed
    attempt,                 \* number of the running attempt of the awaited activity
    disk,                    \* number of slides / sheets of each file that exists
    code_executor_instances, \* the module-level registry: workflow id -> executor
    kernels,                 \* executors whose kernel was started and not shut down
    owner,                   \* owner[k]: the workflow id executor k was constructed for
    activity_call,           \* the latest setup / cleanup activity attempt that ran
    released,                \* history: executors removed from the registry
    submissions,             \* history: the code submitted to executors by tool calls
    execution,               \* the Execution an executor is filling
    run_pc,                  \* where run_code of that executor is
    msg,                     \* the local msg of run_code: the message read last
    msg_id,                  \* the local msg_id of run_code: number of its request
    unfinished,              \* requests whose idle status is not yet read
    parent,                  \* the request the message read last belongs to
    sources,                 \* history: requests whose messages filled or ended
                             \* the Execution
    submits,                 \* history: user_input signals delivered
    tool_calls_issued,       \* history: tool calls the LLM has requested so far
    failed_attempts,         \* history: attempts lost to a transient failure
    queries,                 \* history: get_conversation_history queries served
    history,                 \* the value the latest query returned to its caller
    snapshot_files,          \* history: file lists of the latest memory snapshot
    idle_input,              \* history: the input delivered to the waiting workflow
                             \* whose user message is not yet appended
    message_count            \* the client's assistant_msg_count when it sent the
                             \* latest input

vars == <<messages, pptx_files, excel_files, file_path_mapping, memory,
          user_input_received, user_query, pc, activity_args, assistant_message,
          tool_index,
          tool_response, attempt, disk, code_executor_instances, submits,
          tool_calls_issued, failed_attempts, snapshot_files, queries, history,
          kernels, owner, activity_call, released, submissions, execution,
          run_pc, msg, idle_input, msg_id, unfinished, parent, sources,
          message_count>>

executor_vars == <<execution, run_pc, msg, msg_id, unfinished, parent, sources>>

(***************************************************************************)
(* Bounds of the model.                                                    *)
(***************************************************************************)
MaxEvents == 3       \* events of the environment in one run: signals delivered,
                     \* queries served, tool calls requested by the LLM,
                     \* attempts lost to a transient failure
MaxAttempts == 2     \* the attempt counter of an activity stops counting here
MaxCalls == 2        \* tool calls in one assistant message
MaxInstances == 3    \* CodeExecutor instances constructed in one run
MaxOutputs == 2      \* lines and results collected in one Execution
MaxRuns == 2         \* execute requests sent to the kernel of one executor

(***************************************************************************)
(* Values.                                                                 *)
(***************************************************************************)
WorkflowId == "wf-1"

\* the workflows whose activities the worker serves
SessionIds == {WorkflowId, "wf-2"}

DeckPath == "files/deck.pptx"
BookPath == "files/book.xlsx"
GonePath == "files/gone.pptx"

Basename(file_path) ==
    CASE file_path = DeckPath -> "deck.pptx"
      [] file_path = BookPath -> "book.xlsx"
      [] file_path = GonePath -> "gone.pptx"
      [] OTHER -> file_path

\* input_data of a user_input signal: a dict, some of whose keys may be absent
InputData ==
    { [query |-> "q1", pptx_files |-> <<DeckPath>>, excel_files |-> <<BookPath>>],
      [query |-> "q2", pptx_files |-> <<GonePath>>] }

Get(dict, key, default) == IF key \in DOMAIN dict THEN dict[key] ELSE default

Str(prefix, body) == [prefix |-> prefix, body |-> body]

NoMemory == [name \in {} |-> <<>>]

Last(seq) == seq[Len(seq)]

Min(a, b) == IF a < b THEN a ELSE b

Range(seq) == { seq[i] : i \in DOMAIN seq }

\* the last element of a list of paths with the given base name
LastNamed(files, name) ==
    LET hits == { i \in DOMAIN files : Basename(files[i]) = name }
    IN  files[CHOOSE i \in hits : \A j \in hits : j <= i]

(***************************************************************************)
(* Files on disk.  disk maps each file that exists to the number of its    *)
(* slides (a deck) or sheets (a workbook).                                 *)
(***************************************************************************)
IsPptx(file_path) == file_path \in {DeckPath, GonePath}

\* Presentation(file_path) succeeds
CanOpenDeck(file_path, d) == file_path \in DOMAIN d /\ IsPptx(file_path)

\* load_workbook(file_path) / pd.read_excel(file_path, ...) can open the file
CanOpenBook(file_path, d) == file_path \in DOMAIN d /\ ~IsPptx(file_path)

SheetNames(file_path, d) == [i \in 1 .. d[file_path] |-> <<"Sheet", i>>]

ErrorLabel == << <<"Error", 0>> >>

InitialDisk == [p \in {DeckPath, BookPath} |-> 1]

(***************************************************************************)
(* create_memory_snapshot and create_file_path_mapping.                    *)
(***************************************************************************)
create_memory_snapshot(pptx, excel, d) ==
    LET names == { Basename(p) : p \in Range(pptx) \cup Range(excel) }
        Slides(p) == IF CanOpenDeck(p, d)
                     THEN [i \in 1 .. d[p] |-> <<"Slide", i>>]
                     ELSE ErrorLabel
        Sheets(p) == IF CanOpenBook(p, d) THEN SheetNames(p, d) ELSE ErrorLabel
    IN  [name \in names |->
            IF \E p \in Range(excel) : Basename(p) = name
            THEN Sheets(LastNamed(excel, name))
            ELSE Slides(LastNamed(pptx, name))]

create_file_path_mapping(pptx, excel) ==
    LET files == pptx \o excel
    IN  [name \in { Basename(p) : p \in Range(files) } |-> LastNamed(files, name)]

(***************************************************************************)
(* Messages.  Every message is a record of the same shape; the fields a    *)
(* role does not use hold an empty value.  The content of the system       *)
(* message is the prompt template with the memory snapshot and the file    *)
(* path mapping formatted into it.                                         *)
(***************************************************************************)
NoMapping == [name \in {} |-> ""]

Message(role, content, tool_calls, tool_call_id, name, mem, mapping) ==
    [role |-> role, content |-> content, tool_calls |-> tool_calls,
     tool_call_id |-> tool_call_id, name |-> name,
     memory |-> mem, mapping |-> mapping]

InitialSystemMessage ==
    Message("system", Str("You are an AI PowerPoint and Excel agent.", ""),
            <<>>, 0, "", NoMemory, NoMapping)

\* the f-string assigned to messages[0]["content"] when a turn starts
TurnSystemMessage(mem, mapping) ==
    Message("system", Str("You are an AI PowerPoint and Excel agent.", "turn"),
            <<>>, 0, "", mem, mapping)

\* the f-string assigned to messages[0]["content"] after a modification tool
RefreshedSystemMessage(mem, mapping) ==
    Message("system", Str("You are an AI PowerPoint and Excel agent.", "refresh"),
            <<>>, 0, "", mem, mapping)

UserMessage(query) == Message("user", Str("", query), <<>>, 0, "", NoMemory, NoMapping)

AssistantMessage(content, tool_calls) ==
    Message("assistant", content, tool_calls, 0, "", NoMemory, NoMapping)

ToolMessage(tool_call, content) ==
    Message("tool", content, <<>>, tool_call.id, tool_call.name, NoMemory, NoMapping)

(***************************************************************************)
(* Tool calls.  The arguments of a tool call are a JSON text: kind tells   *)
(* whether it parses at all ("invalid"), parses to something that is not   *)
(* an object ("array") or parses to an object, whose items obj holds.      *)
(***************************************************************************)
JsonText(kind, obj) == [kind |-> kind, obj |-> obj]

NoItems == [k \in {} |-> ""]

ToolPool ==
    { [name |-> "get_slide",
       arguments |-> JsonText("object", [file_path |-> DeckPath, slide_index |-> 0])],
      [name |-> "get_slide",
       arguments |-> JsonText("object", [file_path |-> DeckPath, slide_index |-> -1])],
      [name |-> "get_slide",
       arguments |-> JsonText("object", [file_path |-> DeckPath])],
      [name |-> "get_slide",
       arguments |-> JsonText("invalid", NoItems)],
      [name |-> "foo",
       arguments |-> JsonText("array", NoItems)],
      [name |-> "get_excel_data",
       arguments |-> JsonText("object", [file_path |-> GonePath, sheet_name |-> 1])],
      [name |-> "modify_slide",
       arguments |-> JsonText("object",
           [file_path |-> DeckPath, slide_index |-> 0, code |-> "add_slide"])],
      [name |-> "modify_slide",
       arguments |-> JsonText("object",
           [file_path |-> DeckPath, slide_index |-> 0, code |-> "raise"])],
      [name |-> "get_data_analysis",
       arguments |-> JsonText("object",
           [file_path |-> BookPath, sheet_name |-> 1, code |-> "edit"])] }

\* json.loads(text) raises
JsonLoadsRaises(text) == text.kind = "invalid"

\* the value json.loads(text) returns when it does not raise
JsonLoads(text) ==
    [is_dict |-> text.kind = "object",
     items |-> IF text.kind = "object" THEN text.obj ELSE NoItems]

\* tool_args[key] raises: TypeError on a value that is no dict, KeyError on
\* a dict without the key
SubscriptRaises(tool_args, key) ==
    ~tool_args.is_dict \/ key \notin DOMAIN tool_args.items

(***************************************************************************)
(* The code executor (code_interpreter.py): the Execution that run_code    *)
(* fills from the messages of the kernel's iopub channel, each message     *)
(* being turned into a JSON text and classified by parse_output.           *)
(***************************************************************************)
\* the fields of the dataclass Result
ResultFields ==
    {"text", "html", "markdown", "svg", "png", "jpeg", "pdf", "latex", "json",
     "javascript", "data", "chart", "is_main_result"}

\* the presentation formats among them
FormatFields == ResultFields \ {"is_main_result"}

\* Execution.error = None
None == [none |-> TRUE, name |-> "", value |-> "", traceback |-> << >>]

ExecutionError(name, value, traceback) ==
    [none |-> FALSE, name |-> name, value |-> value, traceback |-> traceback]

\* Execution(): execution_count 0 stands for None
Execution ==
    [results |-> << >>, stdout |-> << >>, stderr |-> << >>, error |-> None,
     execution_count |-> 0]

\* Result(**data): the fields given are set, the others stay None
Result(data) ==
    [fields |-> [k \in DOMAIN data \ {"is_main_result"} |-> data[k]],
     is_main_result |-> IF "is_main_result" \in DOMAIN data
                        THEN data["is_main_result"] ELSE FALSE]

\* json.dumps of a dict
JsonDumps(obj) == JsonText("object", obj)

\* Result accepting keywords it has no field for
ParseRaisesUnlessResult(output) ==
    \/ output.kind # "object"
    \/ "type" \notin DOMAIN output.obj
    \/ LET data == output.obj
       IN  \/ data["type"] \in {"stdout", "stderr"} /\ "text" \notin DOMAIN data
           \/ data["type"] = "error"
                 /\ ~({"name", "value", "traceback"} \subseteq DOMAIN data)
           \/ data["type"] = "number_of_executions"
                 /\ "execution_count" \notin DOMAIN data

\* the body of parse_output raises (the except clause prints and returns):
\* json.loads fails, the value is no dict with a "type", or a key the
\* branch reads is missing, or Result gets a keyword it has no field for
ParseRaises(output) ==
    \/ output.kind # "object"
    \/ "type" \notin DOMAIN output.obj
    \/ LET data == output.obj
       IN  \/ data["type"] = "result" /\ ~(DOMAIN data \ {"type"} \subseteq ResultFields)
           \/ data["type"] \in {"stdout", "stderr"} /\ "text" \notin DOMAIN data
           \/ data["type"] = "error"
                 /\ ~({"name", "value", "traceback"} \subseteq DOMAIN data)
           \/ data["type"] = "number_of_executions"
                 /\ "execution_count" \notin DOMAIN data

\* parse_output appending a stream text to both stdout and stderr
parse_output_both_streams(exec, output) ==
    IF ParseRaises(output) \/ output.obj["type"] \notin {"stdout", "stderr"}
    THEN exec
    ELSE [exec EXCEPT !.stdout = Append(@, output.obj["text"]),
                      !.stderr = Append(@, output.obj["text"])]

\* parse_output(execution, output): the Execution as the call leaves it
parse_output(exec, output) ==
    IF ParseRaises(output)
    THEN exec
    ELSE LET data_type == output.obj["type"]
             data == [k \in DOMAIN output.obj \ {"type"} |-> output.obj[k]]
         IN  CASE data_type = "result" ->
                      [exec EXCEPT !.results = Append(@, Result(data))]
               [] data_type = "stdout" ->
                      [exec EXCEPT !.stdout = Append(@, data["text"])]
               [] data_type = "stderr" ->
                      [exec EXCEPT !.stderr = Append(@, data["text"])]
               [] data_type = "error" ->
                      [exec EXCEPT !.error = ExecutionError(data["name"],
                                                 data["value"], data["traceback"])]
               [] data_type = "number_of_executions" ->
                      [exec EXCEPT !.execution_count = data["execution_count"]]
               [] OTHER -> exec

\* a message of the iopub channel
IopubMsg(msg_type, content) == [msg_type |-> msg_type, content |-> content]

NoMsg == IopubMsg("", [k \in {} |-> ""])

\* what the kernel can put on the channel: stream texts, a stream message
\* without its text, results with one or several MIME types, supported or
\* not, errors, the status messages, and messages run_code has no branch for
KernelMessages ==
    { IopubMsg("stream", [name |-> "stdout", text |-> "out"]),
      IopubMsg("stream", [name |-> "stderr", text |-> "warn"]),
      IopubMsg("stream", [name |-> "stdout"]),
      IopubMsg("execute_result", [data |-> [k \in {"text/plain"} |-> "4"]]),
      IopubMsg("display_data",
               [data |-> [k \in {"text/plain", "image/png"} |->
                             IF k = "text/plain" THEN "<Figure>" ELSE "iVBOR"]]),
      IopubMsg("display_data", [data |-> [k \in {"application/pdf"} |-> "%PDF"]]),
      IopubMsg("error", [ename |-> "NameError", evalue |-> "name 'x' is not defined",
                         traceback |-> <<"Traceback">>]),
      IopubMsg("error", [ename |-> "ValueError", evalue |-> "bad value",
                         traceback |-> <<"Traceback">>]),
      IopubMsg("status", [execution_state |-> "busy"]),
      IopubMsg("status", [execution_state |-> "idle"]),
      IopubMsg("execute_input", [code |-> "x"]) }

\* the exceptions get_iopub_msg(timeout=10) raises: queue.Empty when no
\* message arrives in time, or an error of the channel
ChannelExceptions ==
    { [type |-> "Empty", str |-> ""],
      [type |-> "ZMQError", str |-> "Socket operation on non-socket"] }

\* the elif chain over data.items(): the field a MIME type is stored in
MimeField ==
    [m \in {"text/plain", "text/html", "image/png", "image/jpeg", "image/svg+xml",
            "application/json", "text/markdown"} |->
        CASE m = "text/plain" -> "text"
          [] m = "text/html" -> "html"
          [] m = "image/png" -> "png"
          [] m = "image/jpeg" -> "jpeg"
          [] m = "image/svg+xml" -> "svg"
          [] m = "application/json" -> "json"
          [] m = "text/markdown" -> "markdown"]

\* result_data keeping the first supported MIME type only
result_data_first_format(msg_type, data) ==
    LET known == DOMAIN data \cap DOMAIN MimeField
        first == IF known = {} THEN {} ELSE {CHOOSE m \in known : TRUE}
    IN  [k \in {"type", "is_main_result"} \cup { MimeField[m] : m \in first } |->
            CASE k = "type" -> "result"
              [] k = "is_main_result" -> msg_type = "execute_result"
              [] OTHER -> data[CHOOSE m \in first : MimeField[m] = k]]

\* result_data storing a MIME type without a branch under the field data
result_data_generic(msg_type, data) ==
    LET known == DOMAIN data \cap DOMAIN MimeField
        other == DOMAIN data \ DOMAIN MimeField
    IN  [k \in {"type", "is_main_result"} \cup { MimeField[m] : m \in known }
                \cup (IF other = {} THEN {} ELSE {"data"}) |->
            CASE k = "type" -> "result"
              [] k = "is_main_result" -> msg_type = "execute_result"
              [] k = "data" /\ other # {} -> data[CHOOSE m \in other : TRUE]
              [] OTHER -> data[CHOOSE m \in known : MimeField[m] = k]]

\* result_data of an execute_result or display_data message
result_data(msg_type, data) ==
    LET known == DOMAIN data \cap DOMAIN MimeField
    IN  [k \in {"type", "is_main_result"} \cup { MimeField[m] : m \in known } |->
            CASE k = "type" -> "result"
              [] k = "is_main_result" -> msg_type = "execute_result"
              [] OTHER -> data[CHOOSE m \in known : MimeField[m] = k]]

\* the error_data of the except clause, with a traceback of the exception
error_data_with_traceback(e) ==
    [type |-> "error", name |-> e.type, value |-> e.str, traceback |-> <<e.str>>]

\* the error_data of the except clause: type(e).__name__, str(e), []
error_data(e) ==
    [type |-> "error", name |-> e.type, value |-> e.str, traceback |-> << >>]

\* handling the message raises KeyError: a key of content is missing
HandlingRaises(m) ==
    \/ m.msg_type = "stream" /\ ~({"name", "text"} \subseteq DOMAIN m.content)
    \/ m.msg_type \in {"execute_result", "display_data"} /\ "data" \notin DOMAIN m.content
    \/ m.msg_type = "error"
          /\ ~({"ename", "evalue", "traceback"} \subseteq DOMAIN m.content)

MissingKey == [type |-> "KeyError", str |-> "'text'"]

IsIdle(m) == m.msg_type = "status" /\ m.content.execution_state = "idle"

\* the JSON text one iteration hands to parse_output; none for a message
\* the loop has no branch for
HasOutput(m) == m.msg_type \in {"stream", "execute_result", "display_data", "error"}

Output(m) ==
    CASE m.msg_type = "stream" ->
             JsonDumps([type |-> IF m.content.name = "stdout" THEN "stdout" ELSE "stderr",
                        text |-> m.content.text, timestamp |-> 0])
      [] m.msg_type \in {"execute_result", "display_data"} ->
             JsonDumps(result_data(m.msg_type, m.content.data))
      [] m.msg_type = "error" ->
             JsonDumps([type |-> "error", name |-> m.content.ename,
                        value |-> m.content.evalue, traceback |-> m.content.traceback])

\* lines and results an Execution holds
Collected(exec) == Len(exec.results) + Len(exec.stdout) + Len(exec.stderr)

(***************************************************************************)
(* Tool handlers.  Each returns the set of outcomes it can have, an        *)
(* outcome being the value returned and the disk it leaves.  Each handler  *)
(* wraps its work in try / except Exception and returns the exception as   *)
(* an "Error: ..." string.                                                 *)
(***************************************************************************)
Returned(type, prefix, body, d) ==
    [raises |-> FALSE, type |-> type, prefix |-> prefix, body |-> body, disk |-> d,
     submitted |-> 0]

Raised(d) ==
    [raises |-> TRUE, type |-> "exception", prefix |-> "", body |-> "", disk |-> d,
     submitted |-> 0]

\* exec(code, {}, local_vars) raises
ExecRaises(code) == code = "raise"

\* the slides of the deck after exec(code, ...) has run on it
ExecOnDeck(code, slides) == IF code = "add_slide" THEN slides + 1 ELSE slides

get_slide_xml(file_path, slide_index, d) ==
    IF ~CanOpenDeck(file_path, d)
    THEN { Returned("str", "Error: ", "cannot open", d) }
    ELSE IF 0 <= slide_index /\ slide_index < d[file_path]
         THEN { Returned("str", "<slide>", "shapes", d) }
         ELSE { Returned("str", "Error: ", "Slide index out of range.", d) }

get_excel_table(file_path, sheet_name, d) ==
    IF ~CanOpenBook(file_path, d) \/ sheet_name \notin 1 .. d[file_path]
    THEN { Returned("str", "Error: ", "cannot read sheet", d) }
    ELSE { Returned("str", "|", "markdown table", d) }

\* modify_slide without its try / except: the exception of exec leaves it
modify_slide_uncaught(file_path, slide_index, code, d) ==
    IF ~CanOpenDeck(file_path, d)
    THEN { Raised(d) }
    ELSE IF 0 <= slide_index /\ slide_index < d[file_path]
         THEN IF ExecRaises(code)
              THEN { Raised(d) }
              ELSE { Returned("str", "<slide>", "shapes",
                       [d EXCEPT ![file_path] = ExecOnDeck(code, d[file_path])]) }
         ELSE { Returned("str", "Error: ", "Slide index out of range.", d) }

modify_slide(file_path, slide_index, code, d) ==
    IF ~CanOpenDeck(file_path, d)
    THEN { Returned("str", "Error: ", "cannot open. Code attempted to execute", d) }
    ELSE IF 0 <= slide_index /\ slide_index < d[file_path]
         THEN IF ExecRaises(code)
              THEN { Returned("str", "Error: ", "raised. Code attempted to execute", d) }
              ELSE { Returned("str", "<slide>", "shapes",
                       [d EXCEPT ![file_path] = ExecOnDeck(code, d[file_path])]) }
         ELSE { Returned("str", "Error: ", "Slide index out of range.", d) }

modify_excel(file_path, sheet_name, code, d) ==
    IF ~CanOpenBook(file_path, d) \/ sheet_name \notin 1 .. d[file_path]
    THEN { Returned("str", "Error: ", "cannot read sheet. Code attempted to execute", d) }
    ELSE IF ExecRaises(code)
         THEN { Returned("str", "Error: ", "raised. Code attempted to execute", d) }
         ELSE { Returned("str", "|", "markdown table", d) }

\* executor.run_code(...) returns an Execution without an error, or one with
\* an error, or raises; get_data_analysis serialises the first with status
\* success and the other two with status error
\* what executor.run_code(full_code, ...) does in get_data_analysis: it
\* returns an Execution without error, one with the error of the code, one
\* with the error made of a failed read of the channel, or client.execute
\* raises
RunCodeOutcomes ==
    { [raises |-> FALSE, execution |-> Execution],
      [raises |-> FALSE,
       execution |-> parse_output(Execution, Output(
           IopubMsg("error", [ename |-> "NameError", evalue |-> "name 'x' is not defined",
                              traceback |-> <<"Traceback">>])))],
      [raises |-> TRUE, execution |-> Execution] }
    \cup { [raises |-> FALSE,
            execution |-> parse_output(Execution, JsonDumps(error_data(e)))] :
              e \in ChannelExceptions }

\* the formats of a Result that get_data_analysis copies into its response
ResponseFormats == {"text", "html", "markdown", "png", "svg"}

\* the response dropping what was collected when the Execution has an error
response_dict_error_only(exec) ==
    [status |-> IF exec.error.none THEN "success" ELSE "error",
     stdout |-> IF exec.error.none THEN exec.stdout ELSE << >>,
     stderr |-> IF exec.error.none THEN exec.stderr ELSE << >>,
     results |-> IF exec.error.none
                 THEN [i \in DOMAIN exec.results |->
                          [f \in DOMAIN exec.results[i].fields \cap ResponseFormats |->
                              exec.results[i].fields[f]]]
                 ELSE << >>,
     error |-> exec.error]

\* the dict get_data_analysis serialises once run_code has returned exec:
\* the lines its handlers collected, one object per Result with the formats
\* it copies, and the error with status error when there is one
response_dict(exec) ==
    [status |-> IF exec.error.none THEN "success" ELSE "error",
     stdout |-> exec.stdout,
     stderr |-> exec.stderr,
     results |-> [i \in DOMAIN exec.results |->
                     [f \in DOMAIN exec.results[i].fields \cap ResponseFormats |->
                         exec.results[i].fields[f]]],
     error |-> exec.error]

\* the value get_data_analysis returns from what run_code did: the response
\* with status success, or with status error and the name of
\* execution.error, or the message of the outer except
RunCodeResponse(run, d) ==
    IF run.raises
    THEN Returned("str", "{\"status\": \"error\"", "Failed to execute code", d)
    ELSE IF response_dict(run.execution).status = "success"
    THEN Returned("str", "{\"status\": \"success\"", "results", d)
    ELSE Returned("str", "{\"status\": \"error\"", response_dict(run.execution).error.name, d)

\* get_data_analysis letting the exception of a failed read leave it
get_data_analysis_uncaught(file_path, sheet_name, code, workflow_id, d, registry) ==
    IF workflow_id \notin DOMAIN registry
    THEN { Returned("dict", "{'status': 'error'", "No code executor found", d) }
    ELSE IF ~CanOpenBook(file_path, d) \/ sheet_name \notin 1 .. d[file_path]
         THEN { Returned("dict", "{'status': 'error'", "Failed to load Excel data", d) }
         ELSE { IF ~run.raises /\ run.execution.error.name \in
                                     { e.type : e \in ChannelExceptions }
                THEN [Raised(d) EXCEPT !.submitted = registry[workflow_id]]
                ELSE [RunCodeResponse(run, d) EXCEPT !.submitted = registry[workflow_id]] :
                   run \in RunCodeOutcomes }

\* get_data_analysis without the test for a missing executor: None.run_code
\* outside a try
get_data_analysis_unguarded(file_path, sheet_name, code, workflow_id, d, registry) ==
    IF workflow_id \notin DOMAIN registry
    THEN { Raised(d) }
    ELSE IF ~CanOpenBook(file_path, d) \/ sheet_name \notin 1 .. d[file_path]
         THEN { Returned("dict", "{'status': 'error'", "Failed to load Excel data", d) }
         ELSE { [RunCodeResponse(run, d) EXCEPT !.submitted = registry[workflow_id]] :
                   run \in RunCodeOutcomes }

\* get_data_analysis running the code in whichever executor it finds first
get_data_analysis_shared(file_path, sheet_name, code, workflow_id, d, registry) ==
    IF workflow_id \notin DOMAIN registry
    THEN { Returned("dict", "{'status': 'error'", "No code executor found", d) }
    ELSE IF ~CanOpenBook(file_path, d) \/ sheet_name \notin 1 .. d[file_path]
         THEN { Returned("dict", "{'status': 'error'", "Failed to load Excel data", d) }
         ELSE { [RunCodeResponse(run, d) EXCEPT
                    !.submitted = registry[CHOOSE w \in DOMAIN registry :
                                              \A v \in DOMAIN registry :
                                                  registry[w] <= registry[v]]] :
                   run \in RunCodeOutcomes }

get_data_analysis(file_path, sheet_name, code, workflow_id, d, registry) ==
    IF workflow_id \notin DOMAIN registry
    THEN { Returned("dict", "{'status': 'error'", "No code executor found", d) }
    ELSE IF ~CanOpenBook(file_path, d) \/ sheet_name \notin 1 .. d[file_path]
         THEN { Returned("dict", "{'status': 'error'", "Failed to load Excel data", d) }
         ELSE { [RunCodeResponse(run, d) EXCEPT !.submitted = registry[workflow_id]] :
                   run \in RunCodeOutcomes }

(***************************************************************************)
(* execute_tool: the outcomes of one attempt of the activity.              *)
(***************************************************************************)
KnownTools ==
    {"get_slide", "get_excel_data", "modify_slide", "modify_excel", "get_data_analysis"}

RequiredArgs(tool_name) ==
    CASE tool_name = "get_slide" -> {"file_path", "slide_index"}
      [] tool_name = "get_excel_data" -> {"file_path", "sheet_name"}
      [] tool_name = "modify_slide" -> {"file_path", "slide_index", "code"}
      [] tool_name \in {"modify_excel", "get_data_analysis"} ->
             {"file_path", "sheet_name", "code"}
      [] OTHER -> {}

\* execute_tool looking the handler up in a table: an unknown name raises
execute_tool_lookup(workflow_id, tool_name, tool_args, d, registry) ==
    LET a == tool_args.items
        missing == \E k \in RequiredArgs(tool_name) : SubscriptRaises(tool_args, k)
    IN  IF tool_name \notin KnownTools \/ missing
        THEN { Raised(d) }
        ELSE IF tool_name = "get_slide"
        THEN get_slide_xml(a.file_path, a.slide_index, d)
        ELSE IF tool_name = "get_excel_data"
        THEN get_excel_table(a.file_path, a.sheet_name, d)
        ELSE IF tool_name = "modify_slide"
        THEN modify_slide(a.file_path, a.slide_index, a.code, d)
        ELSE IF tool_name = "modify_excel"
        THEN modify_excel(a.file_path, a.sheet_name, a.code, d)
        ELSE get_data_analysis(a.file_path, a.sheet_name, a.code,
                               workflow_id, d, registry)

execute_tool(workflow_id, tool_name, tool_args, d, registry) ==
    LET a == tool_args.items
        missing == \E k \in RequiredArgs(tool_name) : SubscriptRaises(tool_args, k)
    IN  IF tool_name = "get_slide"
        THEN IF missing THEN { Raised(d) }
             ELSE get_slide_xml(a.file_path, a.slide_index, d)
        ELSE IF tool_name = "get_excel_data"
        THEN IF missing THEN { Raised(d) }
             ELSE get_excel_table(a.file_path, a.sheet_name, d)
        ELSE IF tool_name = "modify_slide"
        THEN IF missing THEN { Raised(d) }
             ELSE modify_slide(a.file_path, a.slide_index, a.code, d)
        ELSE IF tool_name = "modify_excel"
        THEN IF missing THEN { Raised(d) }
             ELSE modify_excel(a.file_path, a.sheet_name, a.code, d)
        ELSE IF tool_name = "get_data_analysis"
        THEN IF missing THEN { Raised(d) }
             ELSE get_data_analysis(a.file_path, a.sheet_name, a.code,
                                    workflow_id, d, registry)
        ELSE { Returned("str", "Unknown tool: ", tool_name, d) }

\* the value an outcome returns to the workflow
Response(outcome) ==
    [type |-> outcome.type, prefix |-> outcome.prefix, body |-> outcome.body]

NoResponse == [type |-> "none", prefix |-> "", body |-> ""]

\* str(tool_response), the content of the tool message
PyStr(response) == Str(response.prefix, response.body)

(***************************************************************************)
(* The registry of code executors and the two activities that change it.   *)
(* Executors are numbered in the order of their construction.  Both        *)
(* activities are coroutines without an await: an attempt runs from start  *)
(* to end before another activity of the worker runs.                      *)
(***************************************************************************)
NoCall == [name |-> "none", workflow_id |-> "", instance |-> 0, status |-> "none"]

\* the map m without the key k
Without(m, k) == [x \in DOMAIN m \ {k} |-> m[x]]

\* the map m with the key k set to v
With(m, k, v) == [x \in DOMAIN m \cup {k} |-> IF x = k THEN v ELSE m[x]]

\* CodeExecutor(install_dependencies=True): the constructor installs the
\* packages, starts a kernel and runs the setup code in it.  It returns a
\* new executor with its kernel running, or raises before a kernel runs (a
\* package cannot be installed, start_kernel fails)
CodeExecutor(workflow_id, live, own) ==
    LET k == Len(own) + 1
    IN  { [raises |-> FALSE, instance |-> k, kernels |-> live \cup {k},
           owner |-> Append(own, workflow_id)],
          [raises |-> TRUE, instance |-> 0, kernels |-> live, owner |-> own] }

\* CodeExecutor.cleanup(): client.shutdown() then km.shutdown_kernel().  It
\* returns with the kernel shut down, or client.shutdown() raises and the
\* kernel is left running, or km.shutdown_kernel() raises, with the kernel
\* gone or not
cleanup(instance, live) ==
    { [raises |-> FALSE, kernels |-> live \ {instance}],
      [raises |-> TRUE, kernels |-> live],
      [raises |-> TRUE, kernels |-> live \ {instance}] }

\* the activity returning the executor of the latest release to the registry
setup_code_executor_reusing(workflow_id, instances, live, own) ==
    LET old == { k \in released : own[k] = workflow_id }
    IN  IF old = {}
        THEN { [instances |-> With(instances, workflow_id, Len(own) + 1),
                kernels |-> live \cup {Len(own) + 1},
                owner |-> Append(own, workflow_id),
                instance |-> Len(own) + 1, status |-> "success"] }
        ELSE { [instances |-> With(instances, workflow_id, k), kernels |-> live,
                owner |-> own, instance |-> k, status |-> "success"] : k \in old }

\* the activity setup_code_executor: the outcomes of one attempt
setup_code_executor(workflow_id, instances, live, own) ==
    { IF c.raises
      THEN [instances |-> instances, kernels |-> c.kernels, owner |-> c.owner,
            instance |-> 0, status |-> "error"]
      ELSE [instances |-> With(instances, workflow_id, c.instance),
            kernels |-> c.kernels, owner |-> c.owner,
            instance |-> c.instance, status |-> "success"] :
      c \in CodeExecutor(workflow_id, live, own) }

\* the activity subscripting the registry without the membership test: the
\* KeyError of an absent id is caught by its except clause
cleanup_code_executor_unguarded(workflow_id, instances, live) ==
    IF workflow_id \in DOMAIN instances
    THEN { [instances |-> Without(instances, workflow_id),
            kernels |-> live \ {instances[workflow_id]},
            instance |-> instances[workflow_id], status |-> "success"] }
    ELSE { [instances |-> instances, kernels |-> live, instance |-> 0,
            status |-> "error"] }

\* the activity cleanup_code_executor: the outcomes of one attempt
cleanup_code_executor(workflow_id, instances, live) ==
    IF workflow_id \in DOMAIN instances
    THEN { IF c.raises
           THEN [instances |-> instances, kernels |-> c.kernels,
                 instance |-> instances[workflow_id], status |-> "error"]
           ELSE [instances |-> Without(instances, workflow_id),
                 kernels |-> c.kernels,
                 instance |-> instances[workflow_id], status |-> "success"] :
           c \in cleanup(instances[workflow_id], live) }
    ELSE { [instances |-> instances, kernels |-> live, instance |-> 0,
            status |-> "warning"] }

\* the outcomes of the attempt of setup_code_executor for an id
SetupOutcomes(workflow_id) ==
    { outcome \in setup_code_executor(workflow_id, code_executor_instances,
                                      kernels, owner) :
        Len(outcome.owner) <= MaxInstances }

\* the outcomes of the attempt of cleanup_code_executor for an id
CleanupOutcomes(workflow_id) ==
    cleanup_code_executor(workflow_id, code_executor_instances, kernels)

\* an attempt of setup_code_executor has run with the outcome given
SetupRan(workflow_id, outcome) ==
    /\ code_executor_instances' = outcome.instances
    /\ kernels' = outcome.kernels
    /\ owner' = outcome.owner
    /\ activity_call' = [name |-> "setup_code_executor", workflow_id |-> workflow_id,
                         instance |-> outcome.instance, status |-> outcome.status]
    /\ UNCHANGED released

\* an attempt of cleanup_code_executor has run with the outcome given
CleanupRan(workflow_id, outcome) ==
    /\ code_executor_instances' = outcome.instances
    /\ kernels' = outcome.kernels
    /\ activity_call' = [name |-> "cleanup_code_executor", workflow_id |-> workflow_id,
                         instance |-> outcome.instance, status |-> outcome.status]
    /\ released' = IF outcome.status = "success"
                   THEN released \cup {outcome.instance}
                   ELSE released
    /\ UNCHANGED owner

registry_vars == <<code_executor_instances, kernels, owner, activity_call, released>>

(***************************************************************************)
(* The workflow.                                                           *)
(*   pc = "setup"       awaiting setup_code_executor                       *)
(*   pc = "wait"        in wait_condition (Idle)                           *)
(*   pc = "snapshot"    awaiting create_memory_snapshot at the turn start  *)
(*   pc = "mapping"     awaiting create_file_path_mapping                  *)
(*   pc = "llm"         awaiting call_llm                                  *)
(*   pc = "tool"        awaiting execute_tool for tool call tool_index     *)
(*   pc = "refresh"     awaiting create_memory_snapshot after a            *)
(*                      modification tool                                  *)
(*   pc = "cleanup"     an exception left the loop; the finally block      *)
(*                      awaits cleanup_code_executor                       *)
(*   pc = "task_failed" the exception left run(): the workflow task fails  *)
(***************************************************************************)
Processing == pc \in {"snapshot", "mapping", "llm", "tool", "refresh"}

Idle == pc = "wait"

\* events the environment may still produce
Budget == MaxEvents - submits - queries - tool_calls_issued - failed_attempts

FileLists == [pptx |-> pptx_files, excel |-> excel_files]

NoFileLists == [pptx |-> <<>>, excel |-> <<>>]

\* the client counts the assistant messages of the conversation it fetched
\* before it sends an input
count_assistant_messages(conversation) ==
    Cardinality({ i \in DOMAIN conversation : conversation[i].role = "assistant" })

\* the test that makes poll_for_assistant_response return True, on the
\* conversation an iteration of its loop fetched: more assistant messages
\* than counted, the last of them with content
poll_for_assistant_response(conversation, count) ==
    LET assistant_messages ==
            { i \in DOMAIN conversation : conversation[i].role = "assistant" }
    IN  /\ Cardinality(assistant_messages) > count
        /\ \E i \in assistant_messages :
              /\ \A k \in assistant_messages : k <= i
              /\ conversation[i].content # Str("", "")

\* no input delivered to the waiting workflow is awaiting its user message
NoInput == [pending |-> FALSE, query |-> ""]

Init ==
    /\ idle_input = NoInput
    /\ message_count = 0
    /\ messages = <<InitialSystemMessage>>
    /\ pptx_files = <<>>
    /\ excel_files = <<>>
    /\ file_path_mapping = NoMapping
    /\ memory = NoMemory
    /\ user_input_received = FALSE
    /\ user_query = ""
    /\ pc = "setup"
    /\ activity_args = NoFileLists
    /\ assistant_message = <<>>
    /\ tool_index = 0
    /\ tool_response = NoResponse
    /\ attempt = 1
    /\ disk = InitialDisk
    /\ code_executor_instances = << >>
    /\ kernels = {}
    /\ owner = << >>
    /\ activity_call = NoCall
    /\ released = {}
    /\ submissions = {}
    /\ execution = Execution
    /\ run_pc = "idle"
    /\ msg = NoMsg
    /\ msg_id = 0
    /\ unfinished = {}
    /\ parent = 0
    /\ sources = {}
    /\ submits = 0
    /\ tool_calls_issued = 0
    /\ failed_attempts = 0
    /\ snapshot_files = NoFileLists
    /\ queries = 0
    /\ history = <<>>

\* the signal handler user_input
UserInput(input_data) ==
    /\ pc # "task_failed"
    /\ Budget > 0
    /\ user_query' = Get(input_data, "query", "")
    /\ pptx_files' = Get(input_data, "pptx_files", <<>>)
    /\ excel_files' = Get(input_data, "excel_files", <<>>)
    /\ user_input_received' = TRUE
    /\ submits' = submits + 1
    /\ message_count' = count_assistant_messages(history)
    /\ idle_input' = IF pc = "wait" /\ ~idle_input.pending
                     THEN [pending |-> TRUE, query |-> Get(input_data, "query", "")]
                     ELSE idle_input
    /\ UNCHANGED <<messages, file_path_mapping, memory, pc, activity_args,
                   assistant_message, tool_index, tool_response, attempt, disk,
                   registry_vars, tool_calls_issued, snapshot_files, failed_attempts,
                   queries, history,
                   submissions, executor_vars>>

\* the query returning the transcript without the system message
get_conversation_history_tail(msgs) == Tail(msgs)

\* the query handler get_conversation_history: return self.messages
get_conversation_history(msgs) == msgs

\* a query is served: the handler runs between two steps of run()
GetConversationHistory ==
    /\ pc # "task_failed"
    /\ Budget > 0
    /\ history' = get_conversation_history(messages)
    /\ queries' = queries + 1
    /\ UNCHANGED <<messages, pptx_files, excel_files, file_path_mapping, memory,
                   user_input_received, user_query, pc, activity_args,
                   assistant_message, tool_index, tool_response, attempt, disk,
                   registry_vars, submits, tool_calls_issued,
                   failed_attempts, snapshot_files, submissions, executor_vars, idle_input, message_count>>

\* setup_code_executor stored a CodeExecutor and returned status success
SetupCodeExecutorSucceeds ==
    /\ pc = "setup"
    /\ \E outcome \in SetupOutcomes(WorkflowId) :
          outcome.status = "success" /\ SetupRan(WorkflowId, outcome)
    /\ attempt' = 1
    /\ pc' = "wait"
    /\ UNCHANGED <<messages, pptx_files, excel_files, file_path_mapping, memory,
                   user_input_received, user_query, activity_args,
                   assistant_message, tool_index, tool_response, disk,
                   submits, tool_calls_issued, snapshot_files, failed_attempts,
                   queries, history,
                   submissions, executor_vars, idle_input, message_count>>

\* the CodeExecutor constructor raised: status error, nothing stored; the
\* workflow ignores the status
SetupCodeExecutorFails ==
    /\ pc = "setup"
    /\ \E outcome \in SetupOutcomes(WorkflowId) :
          outcome.status = "error" /\ SetupRan(WorkflowId, outcome)
    /\ attempt' = 1
    /\ pc' = "wait"
    /\ UNCHANGED <<messages, pptx_files, excel_files, file_path_mapping, memory,
                   user_input_received, user_query, activity_args,
                   assistant_message, tool_index, tool_response, disk,
                   submits, tool_calls_issued, snapshot_files, failed_attempts,
                   queries, history,
                   submissions, executor_vars, idle_input, message_count>>

\* an attempt of setup_code_executor exceeds start_to_close_timeout (the
\* constructor installs packages): the attempt, which blocks the worker,
\* runs to its end all the same, its result is lost and the runtime retries
SetupCodeExecutorTimesOut ==
    /\ pc = "setup"
    /\ Budget > 0
    /\ Len(owner) + 1 < MaxInstances
    /\ \E outcome \in SetupOutcomes(WorkflowId) : SetupRan(WorkflowId, outcome)
    /\ attempt' = Min(attempt + 1, MaxAttempts)
    /\ failed_attempts' = failed_attempts + 1
    /\ UNCHANGED <<messages, pptx_files, excel_files, file_path_mapping, memory,
                   user_input_received, user_query, pc, activity_args,
                   assistant_message, tool_index, tool_response, disk,
                   submits, tool_calls_issued, snapshot_files, queries, history,
                   submissions, executor_vars, idle_input, message_count>>

\* the assignment made to the latest message instead of messages[0]
SetLatestMessage(msgs, message) == [msgs EXCEPT ![Len(msgs)] = message]

\* the system message appended instead of assigned to messages[0]
AppendSystemMessage(msgs, message) == Append(msgs, message)

\* self.messages[0]["content"] = ...: only index 0 is assigned
SetSystemMessage(msgs, message) == [msgs EXCEPT ![1] = message]

\* wait_condition returning without the flag being cleared
WaitConditionKeepsFlag ==
    /\ pc = "wait"
    /\ user_input_received
    /\ user_input_received' = user_input_received
    /\ activity_args' = FileLists
    /\ attempt' = 1
    /\ pc' = "snapshot"
    /\ UNCHANGED <<messages, pptx_files, excel_files, file_path_mapping, memory,
                   user_query, assistant_message, tool_index, tool_response, disk,
                   registry_vars, submits, tool_calls_issued,
                   snapshot_files, failed_attempts,
                   queries, history,
                   submissions, executor_vars, idle_input, message_count>>

\* wait_condition returns; the flag is cleared and create_memory_snapshot is
\* called with the file lists held now
WaitCondition ==
    /\ pc = "wait"
    /\ user_input_received
    /\ user_input_received' = FALSE
    /\ activity_args' = FileLists
    /\ attempt' = 1
    /\ pc' = "snapshot"
    /\ UNCHANGED <<messages, pptx_files, excel_files, file_path_mapping, memory,
                   user_query, assistant_message, tool_index, tool_response, disk,
                   registry_vars, submits, tool_calls_issued,
                   snapshot_files, failed_attempts,
                   queries, history,
                   submissions, executor_vars, idle_input, message_count>>

\* create_memory_snapshot returns; create_file_path_mapping is called with
\* the file lists held now
SnapshotReturns ==
    /\ pc = "snapshot"
    /\ memory' = create_memory_snapshot(activity_args.pptx, activity_args.excel, disk)
    /\ snapshot_files' = activity_args
    /\ activity_args' = FileLists
    /\ pc' = "mapping"
    /\ UNCHANGED <<messages, pptx_files, excel_files, file_path_mapping,
                   user_input_received, user_query, assistant_message, tool_index,
                   tool_response, attempt, disk, registry_vars, submits,
                   tool_calls_issued, failed_attempts,
                   queries, history,
                   submissions, executor_vars, idle_input, message_count>>

\* create_file_path_mapping returns; the system message is rewritten, the
\* user message appended and call_llm called
MappingReturns ==
    /\ pc = "mapping"
    /\ file_path_mapping' =
           create_file_path_mapping(activity_args.pptx, activity_args.excel)
    /\ messages' =
           Append(SetSystemMessage(messages, TurnSystemMessage(memory, file_path_mapping')),
                  UserMessage(user_query))
    /\ activity_args' = NoFileLists
    /\ attempt' = 1
    /\ pc' = "llm"
    /\ idle_input' = NoInput
    /\ UNCHANGED <<pptx_files, excel_files, memory, user_input_received, user_query,
                   assistant_message, tool_index, tool_response, disk,
                   registry_vars, submits, tool_calls_issued,
                   snapshot_files, failed_attempts,
                   queries, history,
                   submissions, executor_vars, message_count>>

(***************************************************************************)
(* The inner loop: call_llm, the assistant message, the tool calls.        *)
(***************************************************************************)
\* what call_llm can return: a final answer, or tool calls drawn from the
\* pool, each with a fresh id
LLMResponses ==
    { [content |-> Str("", "answer"), tool_calls |-> <<>>] } \cup
    UNION { { [content |-> Str("", text),
               tool_calls |-> [j \in 1 .. n |->
                   [id |-> tool_calls_issued + j, name |-> calls[j].name,
                    arguments |-> calls[j].arguments]]] :
              calls \in [1 .. n -> ToolPool], text \in {"", "note"} } :
            n \in 1 .. Min(Budget, MaxCalls) }

\* the test taking a single tool call for none
HasSeveralToolCalls(tool_calls) == Len(tool_calls) > 1

\* if assistant_message["tool_calls"]:
HasToolCalls(tool_calls) == tool_calls # <<>>

\* the test forgetting modify_slide
IsExcelModificationTool(tool_name) == tool_name \in {"modify_excel"}

\* if tool_name in ["modify_slide", "modify_excel"]:
IsModificationTool(tool_name) == tool_name \in {"modify_slide", "modify_excel"}

\* the loop reaches tool call i: json.loads of its arguments, then
\* execute_tool is called; an exception of json.loads leaves the loop
StartToolCall(tool_calls, i) ==
    IF JsonLoadsRaises(tool_calls[i].arguments)
    THEN [pc |-> "cleanup", tool_index |-> i]
    ELSE [pc |-> "tool", tool_index |-> i]

\* the loop over tool_calls starting from the last call
AfterAssistantFromLast(tool_calls) ==
    IF HasToolCalls(tool_calls)
    THEN StartToolCall(tool_calls, Len(tool_calls))
    ELSE [pc |-> "wait", tool_index |-> 0]

\* after the assistant message has been appended
AfterAssistant(tool_calls) ==
    IF HasToolCalls(tool_calls)
    THEN StartToolCall(tool_calls, 1)
    ELSE [pc |-> "wait", tool_index |-> 0]

\* the loop ending the turn after a tool message
AfterToolCallEndsTurn(tool_calls, i) == [pc |-> "wait", tool_index |-> 0]

\* after the tool message of tool call i has been appended
AfterToolCall(tool_calls, i) ==
    IF i < Len(tool_calls)
    THEN StartToolCall(tool_calls, i + 1)
    ELSE [pc |-> "llm", tool_index |-> 0]

ToolCall == assistant_message[tool_index]

\* the outcomes of an attempt of the execute_tool call awaited, if any
ToolOutcomes ==
    IF pc = "tool"
    THEN execute_tool(WorkflowId, ToolCall.name, JsonLoads(ToolCall.arguments),
                      disk, code_executor_instances)
    ELSE {}

\* the submissions once an attempt with this outcome has run for tool call
\* call of workflow_id: the code went to the executor the outcome names
Submitted(workflow_id, outcome, call, n) ==
    IF outcome.submitted = 0
    THEN submissions
    ELSE submissions \cup { [workflow_id |-> workflow_id, instance |-> outcome.submitted,
                             call |-> call, attempt |-> n] }

\* call_llm returns
CallLLMReturns(response) ==
    /\ pc = "llm"
    /\ messages' = Append(messages,
                          AssistantMessage(response.content, response.tool_calls))
    /\ assistant_message' = response.tool_calls
    /\ tool_calls_issued' = tool_calls_issued + Len(response.tool_calls)
    /\ LET next == AfterAssistant(response.tool_calls)
       IN  pc' = next.pc /\ tool_index' = next.tool_index
    /\ attempt' = 1
    /\ UNCHANGED <<pptx_files, excel_files, file_path_mapping, memory,
                   user_input_received, user_query, activity_args, tool_response,
                   disk, registry_vars, submits, snapshot_files, failed_attempts,
                   queries, history,
                   submissions, executor_vars, idle_input, message_count>>

\* an attempt of call_llm raises or times out: the runtime retries it
CallLLMFails ==
    /\ pc = "llm"
    /\ Budget > 0
    /\ attempt' = Min(attempt + 1, MaxAttempts)
    /\ failed_attempts' = failed_attempts + 1
    /\ UNCHANGED <<messages, pptx_files, excel_files, file_path_mapping, memory,
                   user_input_received, user_query, pc, activity_args,
                   assistant_message, tool_index, tool_response, disk,
                   registry_vars, submits, tool_calls_issued,
                   snapshot_files,
                   queries, history,
                   submissions, executor_vars, idle_input, message_count>>

\* execute_tool returns a value
ExecuteToolReturns(outcome) ==
    /\ pc = "tool"
    /\ outcome \in ToolOutcomes
    /\ ~outcome.raises
    /\ disk' = outcome.disk
    /\ submissions' = Submitted(WorkflowId, outcome, ToolCall.id, attempt)
    /\ attempt' = 1
    /\ IF IsModificationTool(ToolCall.name)
       THEN /\ tool_response' = Response(outcome)
            /\ activity_args' = FileLists
            /\ pc' = "refresh"
            /\ UNCHANGED <<messages, tool_index>>
       ELSE /\ messages' = Append(messages, ToolMessage(ToolCall, PyStr(Response(outcome))))
            /\ LET next == AfterToolCall(assistant_message, tool_index)
               IN  pc' = next.pc /\ tool_index' = next.tool_index
            /\ UNCHANGED <<tool_response, activity_args>>
    /\ UNCHANGED <<pptx_files, excel_files, file_path_mapping, memory,
                   user_input_received, user_query, assistant_message,
                   registry_vars, submits, tool_calls_issued,
                   snapshot_files, failed_attempts,
                   queries, history, executor_vars, idle_input, message_count>>

\* an attempt of execute_tool raises (tool_args[...] on a missing key or on a
\* value that is no dict): the runtime retries it, and it raises again
ExecuteToolRaises ==
    /\ pc = "tool"
    /\ \E outcome \in ToolOutcomes : outcome.raises
    /\ attempt' = Min(attempt + 1, MaxAttempts)
    /\ UNCHANGED <<messages, pptx_files, excel_files, file_path_mapping, memory,
                   user_input_received, user_query, pc, activity_args,
                   assistant_message, tool_index, tool_response, disk,
                   registry_vars, submits, tool_calls_issued,
                   snapshot_files, failed_attempts,
                   queries, history,
                   submissions, executor_vars, idle_input, message_count>>

\* an attempt of execute_tool exceeds start_to_close_timeout: whatever the
\* handler wrote stays written, the result is lost and the runtime retries
ExecuteToolTimesOut ==
    /\ pc = "tool"
    /\ Budget > 0
    /\ attempt' = Min(attempt + 1, MaxAttempts)
    /\ failed_attempts' = failed_attempts + 1
    /\ \E outcome \in ToolOutcomes :
          /\ disk' = outcome.disk
          /\ submissions' = Submitted(WorkflowId, outcome, ToolCall.id, attempt)
    /\ UNCHANGED <<messages, pptx_files, excel_files, file_path_mapping, memory,
                   user_input_received, user_query, pc, activity_args,
                   assistant_message, tool_index, tool_response,
                   registry_vars, submits, tool_calls_issued,
                   snapshot_files,
                   queries, history, executor_vars, idle_input, message_count>>

\* create_memory_snapshot returns after a modification tool: the system
\* message is rewritten and the tool message appended
RefreshReturns ==
    /\ pc = "refresh"
    /\ memory' = create_memory_snapshot(activity_args.pptx, activity_args.excel, disk)
    /\ snapshot_files' = activity_args
    /\ messages' =
           Append(SetSystemMessage(messages, RefreshedSystemMessage(memory', file_path_mapping)),
                  ToolMessage(ToolCall, PyStr(tool_response)))
    /\ LET next == AfterToolCall(assistant_message, tool_index)
       IN  pc' = next.pc /\ tool_index' = next.tool_index
    /\ tool_response' = NoResponse
    /\ activity_args' = NoFileLists
    /\ attempt' = 1
    /\ UNCHANGED <<pptx_files, excel_files, file_path_mapping, user_input_received,
                   user_query, assistant_message, disk, registry_vars,
                   submits, tool_calls_issued, failed_attempts,
                   queries, history,
                   submissions, executor_vars, idle_input, message_count>>

\* the finally block: cleanup_code_executor runs, its status is ignored,
\* then the exception leaves run()
CleanupCodeExecutor ==
    /\ pc = "cleanup"
    /\ \E outcome \in CleanupOutcomes(WorkflowId) : CleanupRan(WorkflowId, outcome)
    /\ pc' = "task_failed"
    /\ UNCHANGED <<messages, pptx_files, excel_files, file_path_mapping, memory,
                   user_input_received, user_query, activity_args,
                   assistant_message, tool_index, tool_response, attempt, disk,
                   submits, tool_calls_issued, snapshot_files, failed_attempts,
                   queries, history,
                   submissions, executor_vars, idle_input, message_count>>

WorkflowStep ==
    \/ SetupCodeExecutorSucceeds
    \/ SetupCodeExecutorFails
    \/ WaitCondition
    \/ SnapshotReturns
    \/ MappingReturns
    \/ \E response \in LLMResponses : CallLLMReturns(response)
    \/ \E outcome \in ToolOutcomes : ExecuteToolReturns(outcome)
    \/ ExecuteToolRaises
    \/ RefreshReturns
    \/ CleanupCodeExecutor

Next ==
    \/ \E input_data \in InputData : UserInput(input_data)
    \/ GetConversationHistory
    \/ SetupCodeExecutorSucceeds
    \/ SetupCodeExecutorFails
    \/ SetupCodeExecutorTimesOut
    \/ WaitCondition
    \/ SnapshotReturns
    \/ MappingReturns
    \/ \E response \in LLMResponses : CallLLMReturns(response)
    \/ CallLLMFails
    \/ \E outcome \in ToolOutcomes : ExecuteToolReturns(outcome)
    \/ ExecuteToolRaises
    \/ ExecuteToolTimesOut
    \/ RefreshReturns
    \/ CleanupCodeExecutor

Spec == Init /\ [][Next]_vars

(***************************************************************************)
(* The registry on its own: the worker serves setup_code_executor and      *)
(* cleanup_code_executor for the workflows of SessionIds.  An id is set up *)
(* again when an attempt is retried or when a workflow is started again    *)
(* under the id of one that ended (get_or_create_workflow), and it is      *)
(* cleaned up again when an attempt of cleanup_code_executor is retried.   *)
(***************************************************************************)
workflow_vars ==
    <<messages, pptx_files, excel_files, file_path_mapping, memory,
      user_input_received, user_query, pc, activity_args, assistant_message,
      tool_index, tool_response, attempt, disk, submits, tool_calls_issued,
      failed_attempts, snapshot_files, queries, history, idle_input, message_count>>

RunSetupCodeExecutor(workflow_id) ==
    /\ \E outcome \in SetupOutcomes(workflow_id) : SetupRan(workflow_id, outcome)
    /\ UNCHANGED <<workflow_vars, submissions, executor_vars>>

RunCleanupCodeExecutor(workflow_id) ==
    /\ \E outcome \in CleanupOutcomes(workflow_id) : CleanupRan(workflow_id, outcome)
    /\ UNCHANGED <<workflow_vars, submissions, executor_vars>>

\* the get_data_analysis call the model issues
DataAnalysisCall == CHOOSE tool_call \in ToolPool : tool_call.name = "get_data_analysis"

\* execute_tool runs get_data_analysis for workflow_id
RunGetDataAnalysis(workflow_id) ==
    /\ \E outcome \in execute_tool(workflow_id, DataAnalysisCall.name,
                                    JsonLoads(DataAnalysisCall.arguments),
                                    disk, code_executor_instances) :
          /\ submissions' = Submitted(workflow_id, outcome, 0, 0)
          /\ activity_call' = [name |-> "get_data_analysis", workflow_id |-> workflow_id,
                               instance |-> outcome.submitted,
                               status |-> IF outcome.body = "results"
                                          THEN "success" ELSE "error"]
    /\ UNCHANGED <<workflow_vars, code_executor_instances, kernels, owner, released,
                   executor_vars>>

RegistryNext ==
    \/ \E workflow_id \in SessionIds : RunSetupCodeExecutor(workflow_id)
    \/ \E workflow_id \in SessionIds : RunCleanupCodeExecutor(workflow_id)
    \/ \E workflow_id \in SessionIds : RunGetDataAnalysis(workflow_id)

RegistrySpec == Init /\ [][RegistryNext]_vars

(***************************************************************************)
(* run_code of one executor.                                               *)
(*   run_pc = "idle"      no run_code call has been made                   *)
(*   run_pc = "draining"  in the while loop, about to call get_iopub_msg   *)
(*   run_pc = "returned"  run_code returned execution                      *)
(*   run_pc = "raised"    client.execute raised out of run_code            *)
(***************************************************************************)
other_vars == <<workflow_vars, registry_vars, submissions>>

\* run_code is called: a new Execution, the code is sent to the kernel as
\* the next execute request
RunCode ==
    /\ run_pc # "draining"
    /\ msg_id < MaxRuns
    /\ execution' = Execution
    /\ msg' = NoMsg
    /\ msg_id' = msg_id + 1
    /\ unfinished' = unfinished \cup {msg_id + 1}
    /\ parent' = 0
    /\ sources' = {}
    /\ run_pc' = "draining"
    /\ UNCHANGED other_vars

\* client.execute raises: it is outside the try of the loop
RunCodeExecuteRaises ==
    /\ run_pc # "draining"
    /\ execution' = Execution
    /\ msg' = NoMsg
    /\ parent' = 0
    /\ sources' = {}
    /\ run_pc' = "raised"
    /\ UNCHANGED <<msg_id, unfinished, other_vars>>

\* the request the kernel is working on: it runs its requests in the order
\* it received them, and the messages of one precede those of the next
Oldest(requests) == CHOOSE p \in requests : \A q \in requests : p <= q

\* one iteration of the loop in which get_iopub_msg returns the message m,
\* whatever request it belongs to
GetIopubMsgReturns(m) ==
    /\ run_pc = "draining"
    /\ (HasOutput(m) /\ m.msg_type # "error") => Collected(execution) < MaxOutputs
    /\ msg' = m
    /\ parent' = Oldest(unfinished)
    /\ unfinished' = IF IsIdle(m) THEN unfinished \ {parent'} ELSE unfinished
    /\ sources' = IF HandlingRaises(m) \/ IsIdle(m) \/ HasOutput(m)
                  THEN sources \cup {parent'}
                  ELSE sources
    /\ IF HandlingRaises(m)
       THEN /\ execution' = parse_output(execution, JsonDumps(error_data(MissingKey)))
            /\ run_pc' = "returned"
       ELSE IF IsIdle(m)
       THEN /\ run_pc' = "returned"
            /\ UNCHANGED execution
       ELSE /\ execution' = IF HasOutput(m)
                            THEN parse_output(execution, Output(m))
                            ELSE execution
            /\ UNCHANGED run_pc
    /\ UNCHANGED <<msg_id, other_vars>>

\* one iteration in which get_iopub_msg raises: no message within the 10
\* seconds, or the channel fails; the kernel goes on with the request
GetIopubMsgRaises(e) ==
    /\ run_pc = "draining"
    /\ execution' = parse_output(execution, JsonDumps(error_data(e)))
    /\ run_pc' = "returned"
    /\ UNCHANGED <<msg, msg_id, unfinished, parent, sources, other_vars>>

\* what a caller of parse_output may hand it: the texts run_code builds, a
\* number_of_executions message, a result with both formats and the flag
\* set either way, a text that is no JSON, an object without a type, a
\* result with a key Result has no field for
WireOutputs ==
    { Output(m) : m \in { k \in KernelMessages : HasOutput(k) /\ ~HandlingRaises(k) } }
    \cup { JsonDumps([type |-> "number_of_executions", execution_count |-> n]) :
              n \in 1 .. 2 }
    \cup { JsonDumps([type |-> "result", text |-> "hello", png |-> "iVBOR",
                      is_main_result |-> b]) : b \in BOOLEAN }
    \cup { JsonText("invalid", NoItems),
           JsonDumps([text |-> "hello"]),
           JsonDumps([type |-> "result", timestamp |-> 0]),
           JsonDumps([type |-> "stdout"]),
           JsonDumps([type |-> "error", name |-> "NameError"]),
           JsonDumps([type |-> "comm"]) }

\* parse_output called on an Execution that no run_code is filling
ParseOutput(output) ==
    /\ run_pc # "draining"
    /\ Collected(execution) < MaxOutputs
    /\ execution' = parse_output(execution, output)
    /\ UNCHANGED <<run_pc, msg, msg_id, unfinished, parent, sources, other_vars>>

Drain ==
    \/ \E m \in KernelMessages : GetIopubMsgReturns(m)
    \/ \E e \in ChannelExceptions : GetIopubMsgRaises(e)

ExecutorNext ==
    \/ RunCode
    \/ RunCodeExecuteRaises
    \/ \E m \in KernelMessages : GetIopubMsgReturns(m)
    \/ \E e \in ChannelExceptions : GetIopubMsgRaises(e)
    \/ \E output \in WireOutputs : ParseOutput(output)

ExecutorSpec == Init /\ [][ExecutorNext]_vars

\* run_code goes on to its next iteration: get_iopub_msg returns or raises
\* within its timeout; which message the kernel sends is up to the kernel
FairExecutorSpec == ExecutorSpec /\ WF_vars(Drain)

\* the runtime keeps running a workflow that can take a step, and the
\* activities it retries
FairSpec == Spec /\ WF_vars(WorkflowStep)

(***************************************************************************)
(* Properties.                                                             *)
(***************************************************************************)
\* the positions of the assistant messages
Assistants == { a \in DOMAIN messages : messages[a].role = "assistant" }

\* the positions (a, j) of the tool calls whose tool message is in the
\* transcript at position a + j
Answered ==
    { p \in Assistants \X (1 .. MaxCalls) :
        p[2] <= Len(messages[p[1]].tool_calls) /\ p[1] + p[2] <= Len(messages) }

IsFinal(message) ==
    \/ message.role = "system"
    \/ message.role = "assistant" /\ message.tool_calls = <<>>

\* the arguments of a tool call parse to a dict holding every required key
WellFormed(tool_call) ==
    /\ tool_call.arguments.kind = "object"
    /\ RequiredArgs(tool_call.name) \subseteq DOMAIN tool_call.arguments.obj

\* the operation under a handler fails: the file cannot be opened, the slide
\* index is out of range or the code given raises
FailsInside(tool_call) ==
    LET a == tool_call.arguments.obj
    IN  /\ tool_call.name \in KnownTools
        /\ WellFormed(tool_call)
        /\ \/ a.file_path \notin DOMAIN disk
           \/ "slide_index" \in DOMAIN a /\ a.slide_index < 0
           \/ "code" \in DOMAIN a /\ a.code = "raise"

\* C1: a user_input signal delivered while a turn is being processed changes
\* neither the stored query nor the stored file lists and leaves no pending
\* input behind that would start a further turn.
C1_SubmitWhileProcessingIgnored ==
    [][(Processing /\ submits' = submits + 1) =>
          /\ user_query' = user_query
          /\ pptx_files' = pptx_files
          /\ excel_files' = excel_files
          /\ user_input_received' = user_input_received]_vars

\* C2: every tool call of an assistant message is dispatched exactly once
\* (its tool message is appended after a single attempt of execute_tool), and
\* when call_llm is called every tool call in the transcript has exactly one
\* tool message carrying its id.
C2_DispatchedOnceAndMatched ==
    /\ [](pc = "llm" =>
            \A a \in Assistants : \A j \in DOMAIN messages[a].tool_calls :
                Cardinality({ i \in DOMAIN messages :
                    /\ messages[i].role = "tool"
                    /\ messages[i].tool_call_id = messages[a].tool_calls[j].id }) = 1)
    /\ [][(Len(messages') = Len(messages) + 1 /\ Last(messages').role = "tool"
           /\ pc = "tool") => attempt = 1]_vars

\* C3: the tool messages that follow an assistant message carry the ids of
\* its tool calls in the order of the tool_calls list, and tool call k is
\* dispatched only when the tool messages of calls 1 .. k-1 are the last
\* messages of the transcript.
C3_ToolMessagesInCallOrder ==
    /\ \A p \in Answered :
          /\ messages[p[1] + p[2]].role = "tool"
          /\ messages[p[1] + p[2]].tool_call_id = messages[p[1]].tool_calls[p[2]].id
    /\ pc \in {"tool", "refresh"} =>
          LET a == Len(messages) - (tool_index - 1)
          IN  /\ a \in Assistants
              /\ messages[a].tool_calls = assistant_message

C3_Witness ==
    \E p \in Answered :
        /\ p[2] = 2
        /\ messages[p[1] + 1].role = "tool"
        /\ messages[p[1] + 2].role = "tool"
        /\ messages[p[1] + 1].tool_call_id # messages[p[1] + 2].tool_call_id

C5_LLMFailureReturnsToIdle ==
    [][(pc = "llm" /\ failed_attempts' = failed_attempts + 1) =>
          /\ messages' = messages
          /\ pc' = "wait"]_vars

\* C6: a tool call whose handler's operation fails (file that cannot be
\* opened, slide index out of range, code that raises) never makes
\* execute_tool raise: every outcome is an "Error: ..." string, and that
\* string is the content of the call's tool message.
C6_HandlerFailureBecomesErrorString ==
    /\ \A p \in Answered :
          FailsInside(messages[p[1]].tool_calls[p[2]]) =>
              /\ messages[p[1] + p[2]].role = "tool"
              /\ messages[p[1] + p[2]].content.prefix = "Error: "
    /\ (pc = "tool" /\ FailsInside(ToolCall)) =>
          \A outcome \in ToolOutcomes :
              ~outcome.raises /\ outcome.prefix = "Error: " /\ outcome.disk = disk

C6_Witness ==
    \E p \in Answered :
        /\ messages[p[1]].tool_calls[p[2]].name = "modify_slide"
        /\ FailsInside(messages[p[1]].tool_calls[p[2]])
        /\ messages[p[1] + p[2]].content.prefix = "Error: "
        /\ pc = "llm"

\* C7: a known tool dispatched with a missing required argument, or with
\* arguments that are no JSON object, yields an "Error: ..." string: no
\* attempt of execute_tool raises and no exception leaves the loop.
C7_ArgumentErrorsBecomeErrorStrings ==
    /\ pc \notin {"cleanup", "task_failed"}
    /\ (pc = "tool" /\ ToolCall.name \in KnownTools /\ ~WellFormed(ToolCall)) =>
          \A outcome \in ToolOutcomes : ~outcome.raises /\ outcome.prefix = "Error: "

\* C8: execute_tool called with a name that is no tool returns the string
\* "Unknown tool: <name>" whatever the arguments are, without raising, and
\* that string is the content of the call's tool message.
C8_UnknownToolString ==
    /\ \A call \in ToolPool :
          ~JsonLoadsRaises(call.arguments) =>
              execute_tool(WorkflowId, "foo", JsonLoads(call.arguments), disk,
                           code_executor_instances)
                  = { Returned("str", "Unknown tool: ", "foo", disk) }
    /\ \A p \in Answered :
          messages[p[1]].tool_calls[p[2]].name \notin KnownTools =>
              /\ messages[p[1] + p[2]].role = "tool"
              /\ messages[p[1] + p[2]].content =
                     Str("Unknown tool: ", messages[p[1]].tool_calls[p[2]].name)

C8_Witness ==
    \E p \in Answered :
        /\ messages[p[1]].tool_calls[p[2]].name = "foo"
        /\ messages[p[1]].tool_calls[p[2]].arguments.kind = "array"
        /\ messages[p[1] + p[2]].content = Str("Unknown tool: ", "foo")
        /\ pc = "llm"

\* C9: a turn begins only when the turn before it has run to completion:
\* every user message directly follows the system message or an assistant
\* message without tool calls, and while the file activities of a starting
\* turn run the transcript ends with such a message.
C9_TurnsDoNotOverlap ==
    /\ \A i \in DOMAIN messages :
          messages[i].role = "user" => i > 1 /\ IsFinal(messages[i - 1])
    /\ pc \in {"wait", "snapshot", "mapping"} => IsFinal(Last(messages))

C9_Witness ==
    \E i, k \in DOMAIN messages :
        /\ i < k
        /\ messages[i].role = "tool"
        /\ messages[k].role = "user"
        /\ pc = "llm"

\* C10: the workflow is Idle only when the transcript ends with the system
\* message or an assistant message without tool calls, and while the
\* transcript ends with an assistant message with tool calls, or with one of
\* its tool messages, the workflow is in the inner loop, on its way to the
\* next call of call_llm: it does not leave Processing there.
C10_LeavesProcessingOnlyAfterFinalAnswer ==
    /\ Idle => IsFinal(Last(messages))
    /\ ~IsFinal(Last(messages)) /\ Last(messages).role # "user" =>
          pc \in {"tool", "refresh", "llm"}

\* C11: a turn in which the LLM requests exactly one tool call and then
\* answers without tool calls appends exactly four messages: the user
\* message, the assistant message with the call, the tool message of the
\* call and the final assistant message; the workflow is then back in
\* wait_condition (or has left it again for the file activities of the next
\* turn) and the next message, if any, is the user message of the next turn.
C11_OneToolCallTurnAppendsFour ==
    \A u \in DOMAIN messages :
        (/\ messages[u].role = "user"
         /\ u + 1 <= Len(messages)
         /\ Len(messages[u + 1].tool_calls) = 1) =>
            /\ messages[u + 1].role = "assistant"
            /\ u + 2 <= Len(messages) =>
                  /\ messages[u + 2].role = "tool"
                  /\ messages[u + 2].tool_call_id = messages[u + 1].tool_calls[1].id
            /\ u + 3 <= Len(messages) => messages[u + 3].role = "assistant"
            /\ (u + 3 <= Len(messages) /\ messages[u + 3].tool_calls = <<>>) =>
                  /\ Len(messages) = u + 3 => pc \in {"wait", "snapshot", "mapping"}
                  /\ u + 4 <= Len(messages) => messages[u + 4].role = "user"

C11_Witness ==
    \E u \in DOMAIN messages :
        /\ messages[u].role = "user"
        /\ Len(messages) = u + 3
        /\ Len(messages[u + 1].tool_calls) = 1
        /\ messages[u + 2].role = "tool"
        /\ messages[u + 3].role = "assistant"
        /\ messages[u + 3].tool_calls = <<>>
        /\ Idle

\* C13: the transcript is append-only: a step never shortens it and never
\* changes a message at an index above 0; index 0 stays the system message.
C13_TranscriptAppendOnly ==
    [][/\ Len(messages') >= Len(messages)
       /\ \A i \in 2 .. Len(messages) : messages'[i] = messages[i]
       /\ messages'[1].role = "system"]_vars

C13_Witness ==
    /\ \E i \in DOMAIN messages :
          messages[i].role = "tool" /\ messages[i].name = "modify_slide"
    /\ messages[1].memory # NoMemory
    /\ messages[1] # InitialSystemMessage
    /\ Len(messages) >= 4

\* C12: every turn terminates: a workflow that has left wait_condition for a
\* turn is eventually back in wait_condition.
C12_EveryTurnTerminates == Processing ~> Idle

\* C14: get_conversation_history is read-only and is served in any state of
\* the workflow: it returns the transcript as it is, system message
\* included, and changes neither the transcript nor the stored query, the
\* file lists, the pending-input flag or the position of run().
C14_HistoryIsReadOnly ==
    [][queries' = queries + 1 =>
          /\ history' = messages
          /\ history'[1].role = "system"
          /\ UNCHANGED <<messages, user_query, pptx_files, excel_files,
                         user_input_received, pc, memory, file_path_mapping,
                         assistant_message, tool_index, registry_vars,
                         disk>>]_vars

C14_Witness ==
    /\ pc = "tool"
    /\ queries = 1
    /\ history = messages
    /\ Len(history) = 3

\* the executors constructed for a workflow id
ConstructedFor(workflow_id) == { k \in DOMAIN owner : owner[k] = workflow_id }

\* C15: acquire calls for one session id never construct two interpreter
\* sessions: of the executors constructed for an id, at most one has not
\* been released, and it is the one the registry holds for the id.
C15_OneSandboxPerSession ==
    \A id \in SessionIds :
        /\ Cardinality(ConstructedFor(id) \ released) <= 1
        /\ \A k \in ConstructedFor(id) \ released :
              id \in DOMAIN code_executor_instances /\ code_executor_instances[id] = k

\* C16: acquire is idempotent: no executor is constructed for an id the
\* registry holds an executor for, and at most one kernel started for an id
\* is running in every state.
C16_AcquireIsIdempotent ==
    /\ [](\A id \in SessionIds : Cardinality(ConstructedFor(id) \cap kernels) <= 1)
    /\ [][\A id \in DOMAIN code_executor_instances :
             ~(Len(owner') > Len(owner) /\ owner'[Len(owner')] = id)]_vars

\* C17: when the workflow has left its main loop and ended, the registry
\* holds no entry for its id and no kernel started for it is running.
C17_SandboxReleasedWhenWorkflowEnds ==
    pc = "task_failed" =>
        /\ WorkflowId \notin DOMAIN code_executor_instances
        /\ ConstructedFor(WorkflowId) \cap kernels = {}

\* C18: cleanup_code_executor called for an id without a registry entry
\* returns status warning and leaves the registry, the entries of the other
\* ids included, and the kernels as they are.
C18_ReleaseOfAbsentIdWarns ==
    [][(/\ activity_call'.name = "cleanup_code_executor"
        /\ activity_call'.workflow_id \notin DOMAIN code_executor_instances) =>
           /\ activity_call'.status = "warning"
           /\ UNCHANGED <<code_executor_instances, kernels, owner, released>>]_vars

C18_Witness ==
    /\ activity_call = [name |-> "cleanup_code_executor", workflow_id |-> "wf-2",
                        instance |-> 0, status |-> "warning"]
    /\ WorkflowId \in DOMAIN code_executor_instances
    /\ code_executor_instances[WorkflowId] \in kernels

\* C19: when cleanup_code_executor has returned for an id, whatever its
\* status, the registry has no entry for the id and the kernel of the
\* executor it found there is shut down.
C19_ReleasedAfterCleanupReturns ==
    activity_call.name = "cleanup_code_executor" =>
        /\ activity_call.workflow_id \notin DOMAIN code_executor_instances
        /\ activity_call.instance \notin kernels

\* C20: the executor the registry holds for an id is never one that was
\* released, and setup_code_executor called after a release stores an
\* executor constructed by that call, with a kernel of its own.
C20_AcquireAfterReleaseIsFresh ==
    /\ \A id \in DOMAIN code_executor_instances :
          code_executor_instances[id] \notin released
    /\ (activity_call.name = "setup_code_executor" /\ activity_call.status = "success") =>
          /\ activity_call.instance = Len(owner)
          /\ code_executor_instances[activity_call.workflow_id] = activity_call.instance
          /\ activity_call.instance \in kernels

C20_Witness ==
    /\ activity_call.name = "setup_code_executor"
    /\ activity_call.status = "success"
    /\ \E k \in released :
          /\ owner[k] = activity_call.workflow_id
          /\ k < code_executor_instances[activity_call.workflow_id]

\* the formats run_code has a branch for
SupportedFormats == {"text", "html", "markdown", "svg", "png", "jpeg", "json"}

\* the step ends the loop of run_code otherwise than on the idle status
ReadFailed == run_pc = "draining" /\ run_pc' = "returned" /\ ~IsIdle(msg')

\* C22: when get_iopub_msg times out or raises, or handling the message
\* raises, run_code records an error with the name of the exception's type,
\* the exception's string as value and an empty traceback, stops draining
\* and returns the Execution with every line and result collected so far.
C22_ReadFailureSynthesizesError ==
    [][ReadFailed =>
          /\ \E e \in ChannelExceptions \cup {MissingKey} :
                execution'.error = [none |-> FALSE, name |-> e.type,
                                    value |-> e.str, traceback |-> << >>]
          /\ execution'.stdout = execution.stdout
          /\ execution'.stderr = execution.stderr
          /\ execution'.results = execution.results
          /\ execution'.execution_count = execution.execution_count]_vars

C22_Witness ==
    /\ run_pc = "returned"
    /\ execution.error.name = "Empty"
    /\ execution.error.traceback = << >>
    /\ execution.stdout = <<"out">>
    /\ Len(execution.results) = 1

\* C23: an Execution keeps the first error recorded for its run: once the
\* error is set, no later step of the run replaces it.
C23_FirstErrorIsKept ==
    [][(run_pc = "draining" /\ ~execution.error.none) =>
          execution'.error = execution.error]_vars

\* C25: parse_output changes only the slot of the message's type: a stdout
\* (stderr) text is appended as one line to stdout (stderr), a result is
\* appended as one Result, number_of_executions sets execution_count, and
\* every other slot is left as it was.
C25_ClassifierChangesOneSlot ==
    \A output \in { o \in WireOutputs : o.kind = "object" /\ "type" \in DOMAIN o.obj } :
        LET data == output.obj
            after == parse_output(execution, output)
        IN  /\ (data["type"] = "stdout" /\ "text" \in DOMAIN data) =>
                  after = [execution EXCEPT !.stdout = Append(@, data["text"])]
            /\ (data["type"] = "stderr" /\ "text" \in DOMAIN data) =>
                  after = [execution EXCEPT !.stderr = Append(@, data["text"])]
            /\ (data["type"] = "result" /\ DOMAIN data \subseteq ResultFields \cup {"type"}) =>
                  /\ Len(after.results) = Len(execution.results) + 1
                  /\ SubSeq(after.results, 1, Len(execution.results)) = execution.results
                  /\ after = [execution EXCEPT !.results = after.results]
            /\ data["type"] = "number_of_executions" =>
                  after = [execution EXCEPT !.execution_count = data["execution_count"]]

C25_Witness ==
    /\ run_pc = "idle"
    /\ execution.execution_count = 2
    /\ execution.stdout = <<"out">>
    /\ execution.results = << >>
    /\ execution.error.none

\* C26: an execute_result or display_data message yields exactly one Result
\* holding every supported format of the message, with is_main_result true
\* exactly for execute_result; a result text with text and png yields one
\* Result with both set and the flag as given.
C26_OneResultWithEveryFormat ==
    /\ \A m \in { k \in KernelMessages :
                     k.msg_type \in {"execute_result", "display_data"} } :
          LET after == parse_output(execution, Output(m))
              known == DOMAIN m.content.data \cap DOMAIN MimeField
          IN  /\ Len(after.results) = Len(execution.results) + 1
              /\ DOMAIN Last(after.results).fields = { MimeField[x] : x \in known }
              /\ \A x \in known :
                    Last(after.results).fields[MimeField[x]] = m.content.data[x]
              /\ Last(after.results).is_main_result = (m.msg_type = "execute_result")
    /\ \A b \in BOOLEAN :
          LET after == parse_output(execution,
                           JsonDumps([type |-> "result", text |-> "hello",
                                      png |-> "iVBOR", is_main_result |-> b]))
          IN  /\ Len(after.results) = Len(execution.results) + 1
              /\ Last(after.results).fields = [text |-> "hello", png |-> "iVBOR"]
              /\ Last(after.results).is_main_result = b
    /\ \A i \in DOMAIN execution.results :
          run_pc = "draining" /\ execution.results[i].is_main_result =>
              DOMAIN execution.results[i].fields = {"text"}

C26_Witness ==
    /\ run_pc = "returned"
    /\ Len(execution.results) = 2
    /\ DOMAIN execution.results[1].fields = {"text", "png"}
    /\ ~execution.results[1].is_main_result
    /\ execution.results[2].is_main_result

C30_RunCodeReturns == (run_pc = "draining") ~> (run_pc = "returned")

\* the tool messages that report a read of the channel that failed
ReadFailureMessages ==
    { i \in DOMAIN messages :
         /\ messages[i].role = "tool"
         /\ messages[i].content.prefix = "{\"status\": \"error\""
         /\ messages[i].content.body \in { e.type : e \in ChannelExceptions } }

\* C21: the code of a get_data_analysis call of a workflow is only ever
\* submitted to an executor constructed for and registered under that
\* workflow's id, never to the executor of another workflow.
C21_CodeRunsInOwnSandbox ==
    \A s \in submissions : owner[s.instance] = s.workflow_id

C21_Witness ==
    /\ DOMAIN code_executor_instances = SessionIds
    /\ \A w \in SessionIds :
          \E s \in submissions :
              s.workflow_id = w /\ s.instance = code_executor_instances[w]

\* C24: the code of one get_data_analysis tool call is submitted to the
\* executor at most once: no two submissions belong to the same tool call.
C24_SubmittedExactlyOnce ==
    \A s, t \in submissions : s.call = t.call => s = t

\* C27: a read of the channel that fails during a get_data_analysis call is
\* returned as a status error response, never raised; once the tool message
\* reporting it is in the transcript and the workflow is in its loop, the
\* executor is still registered with its kernel running, and every
\* submission of the workflow went to that executor.
C27_ReadFailureKeepsSession ==
    /\ (pc = "tool" /\ ToolCall.name = "get_data_analysis"
        /\ WorkflowId \in DOMAIN code_executor_instances) =>
          \A outcome \in ToolOutcomes :
              /\ ~outcome.raises
              /\ outcome.submitted \in {0, code_executor_instances[WorkflowId]}
    /\ (ReadFailureMessages # {} /\ (Processing \/ Idle)) =>
          /\ WorkflowId \in DOMAIN code_executor_instances
          /\ code_executor_instances[WorkflowId] \in kernels
          /\ \A s \in submissions : s.instance = code_executor_instances[WorkflowId]

C27_Witness ==
    /\ \E i \in ReadFailureMessages :
          /\ i < Len(messages)
          /\ messages[i + 1].role = "tool"
          /\ messages[i + 1].content.body = "results"
    /\ Cardinality({ s.call : s \in submissions }) = 2
    /\ Cardinality({ s.instance : s \in submissions }) = 1

\* C28: a get_data_analysis call dispatched while the registry holds no
\* executor for the workflow has its code run in an executor all the same.
C28_AbsentSandboxIsRecreated ==
    (pc = "tool" /\ ToolCall.name = "get_data_analysis"
     /\ WorkflowId \notin DOMAIN code_executor_instances) =>
        \E outcome \in ToolOutcomes : outcome.submitted # 0

\* C31: once run_code has returned an Execution with an error, the response
\* of get_data_analysis has status error and the error's name, value and
\* traceback, and still holds every stdout and stderr line and one object
\* per Result, with the formats copied, collected before the error; the
\* status is success exactly when the Execution has no error.
C31_ErrorResponseKeepsPartialOutput ==
    run_pc = "returned" =>
        LET r == response_dict(execution)
        IN  /\ (r.status = "success") = execution.error.none
            /\ r.status \in {"success", "error"}
            /\ ~execution.error.none =>
                  /\ r.error.name = execution.error.name
                  /\ r.error.value = execution.error.value
                  /\ r.error.traceback = execution.error.traceback
            /\ r.stdout = execution.stdout
            /\ r.stderr = execution.stderr
            /\ Len(r.results) = Len(execution.results)
            /\ \A i \in DOMAIN r.results :
                  \A f \in DOMAIN execution.results[i].fields \cap ResponseFormats :
                      /\ f \in DOMAIN r.results[i]
                      /\ r.results[i][f] = execution.results[i].fields[f]

C31_Witness ==
    /\ run_pc = "returned"
    /\ msg.msg_type = "status"
    /\ execution.error.name = "NameError"
    /\ execution.error.traceback # << >>
    /\ execution.stdout = <<"out">>
    /\ Len(execution.results) = 1
    /\ response_dict(execution).status = "error"

\* C32: an input delivered to the workflow while it waits for input, with
\* none pending, stays the stored query until its user message is appended,
\* and the user message appended for it carries its query.
C32_IdleInputIsKept ==
    /\ idle_input.pending => user_query = idle_input.query
    /\ idle_input.pending => pc \in {"wait", "snapshot", "mapping"}

\* the user message of the turn being processed
TurnUserMessage ==
    messages[CHOOSE i \in DOMAIN messages :
                 /\ messages[i].role = "user"
                 /\ \A k \in DOMAIN messages : messages[k].role = "user" => k <= i]

\* C33: whenever call_llm is called, the memory snapshot and the file path
\* mapping of the system message were both computed from the file lists of
\* one input, the one whose query is the user message of the turn.
C33_SnapshotAndMappingOfOneInput ==
    pc = "llm" =>
        \E input_data \in InputData :
            LET pptx == Get(input_data, "pptx_files", <<>>)
                excel == Get(input_data, "excel_files", <<>>)
            IN  /\ TurnUserMessage.content = Str("", Get(input_data, "query", ""))
                /\ snapshot_files = [pptx |-> pptx, excel |-> excel]
                /\ messages[1].mapping = create_file_path_mapping(pptx, excel)

\* C34: the Execution run_code is filling or has returned was filled and
\* ended only by messages of its own request: no message that belongs to an
\* earlier request is collected into it or ends it.
C34_OnlyOwnMessages ==
    run_pc \in {"draining", "returned"} => sources \subseteq {msg_id}

\* C35: when an iteration of poll_for_assistant_response, on the
\* conversation it has just fetched, finds its test for a complete answer
\* true, the workflow is waiting for input with none pending and the
\* transcript ends with an assistant message without tool calls.
C35_PollReportsCompletedTurn ==
    [][(queries' = queries + 1 /\ submits > 0
        /\ poll_for_assistant_response(history', message_count)) =>
           /\ Idle
           /\ ~user_input_received
           /\ Last(messages).role = "assistant"
           /\ Last(messages).tool_calls = << >>]_vars

\* the user messages of the transcript
UserMessages == { i \in DOMAIN messages : messages[i].role = "user" }

\* C36: the turns started, those whose user message is appended and the one
\* whose file activities run, together with the input still pending, never
\* outnumber the user_input signals delivered.
C36_NoSpuriousTurns ==
    Cardinality(UserMessages)
      + (IF pc \in {"snapshot", "mapping"} THEN 1 ELSE 0)
      + (IF user_input_received THEN 1 ELSE 0) <= submits

C36_Witness ==
    /\ Cardinality(UserMessages) = 2
    /\ submits = 2
    /\ pc = "llm"

\* C37: while no CodeExecutor is registered for the workflow, an attempt of
\* a well-formed get_data_analysis call returns a status error value without
\* raising and without submitting code; when no executor was ever stored,
\* every tool message of get_data_analysis in the transcript is such an
\* error.
C37_SetupFailureGivesErrorResults ==
    /\ (pc = "tool" /\ ToolCall.name = "get_data_analysis" /\ WellFormed(ToolCall)
        /\ WorkflowId \notin DOMAIN code_executor_instances) =>
          /\ ToolOutcomes # {}
          /\ \A outcome \in ToolOutcomes :
                /\ ~outcome.raises
                /\ outcome.prefix = "{'status': 'error'"
                /\ outcome.submitted = 0
    /\ owner = << >> =>
          \A i \in DOMAIN messages :
              (messages[i].role = "tool" /\ messages[i].name = "get_data_analysis") =>
                  messages[i].content.prefix = "{'status': 'error'"

C37_Witness ==
    /\ owner = << >>
    /\ activity_call.name = "setup_code_executor"
    /\ activity_call.status = "error"
    /\ pc = "llm"
    /\ Last(messages).role = "tool"
    /\ Last(messages).name = "get_data_analysis"
    /\ Last(messages).content.body = "No code executor found"

\* C38: the transcript is never empty, its first message is the system
\* message and no other message has the role system.
C38_SystemMessageOnlyAtIndexZero ==
    /\ Len(messages) >= 1
    /\ messages[1].role = "system"
    /\ \A i \in DOMAIN messages :
          i > 1 => messages[i].role \in {"user", "assistant", "tool"}

C38_Witness ==
    /\ Len(messages) >= 5
    /\ messages[1] # InitialSystemMessage
    /\ messages[1].content.body = "refresh"
    /\ Cardinality(UserMessages) = 1

\* C39: a text parse_output cannot parse (no JSON object, no type, a field
\* of its type missing, a result with a field Result does not have) leaves
\* the Execution as it was, whatever it holds and whether or not run_code
\* is draining the channel; parse_output returns normally, so the loop that
\* called it goes on.
C39_UnparseableOutputIsIgnored ==
    \A output \in { JsonText("invalid", NoItems),
                    JsonText("array", NoItems),
                    JsonDumps([text |-> "hello"]),
                    JsonDumps([type |-> "stdout"]),
                    JsonDumps([type |-> "stderr", timestamp |-> 0]),
                    JsonDumps([type |-> "error", name |-> "NameError"]),
                    JsonDumps([type |-> "number_of_executions"]),
                    JsonDumps([type |-> "result", timestamp |-> 0]),
                    JsonDumps([type |-> "result", text |-> "hello", extra |-> "x"]) } :
        parse_output(execution, output) = execution

C39_Witness ==
    /\ run_pc = "draining"
    /\ execution.stdout # << >>
    /\ execution.results # << >>
    /\ ~execution.error.none

====
